---- MODULE Spec2Model ----
(***************************************************************************)
(* Model of backend/app.py, the Polymarket insider sentinel: the upstream  *)
(* ingestion loop (polymarket_sentinel), the per-event pipeline            *)
(* (analyze_trade, get_wallet_age_hours), the subscriber hub               *)
(* (ConnectionManager) and the downstream endpoint (websocket_endpoint).   *)
(*                                                                         *)
(* Time is counted in whole hours.  Every asyncio task runs until its next *)
(* await; the only state two tasks share is manager.active_connections,    *)
(* so the steps of the model are cut at the awaits of broadcast (one per   *)
(* send) and at the boundaries between events.                             *)
(***************************************************************************)
EXTENDS Integers, Sequences, FiniteSets, TLC

(***************************************************************************)
(* Bounds of the model.                                                    *)
(***************************************************************************)
\* websocket clients that may ever connect
MaxSubscribers == 2
\* events submitted to analyze_trade over a run
MaxEvents == 2
\* elements carried by one upstream message
MaxBatch == 2
\* hours the wall clock advances over a run
MaxClock == 1
\* consecutive connect failures that are counted exactly
MaxFailures == 9
\* length of active_connections when the manager is driven directly
MaxConns == 4

(***************************************************************************)
(* Program constants.                                                      *)
(***************************************************************************)
SUSPICIOUS_THRESHOLD_USD == 10000
NEW_ACCOUNT_HOURS == 48
NOISE_THRESHOLD_USD == 100
RPC_FAILURE_AGE == 9999
OLD_WALLET_HOURS == 720
CACHE_TTL_HOURS == 24
MIN_NEW_WALLET_HOURS == 1
MAX_NEW_WALLET_HOURS == 20
INVALID_URI_WAIT == 30

(***************************************************************************)
(* JSON values as Python sees them after json.loads.  A float is a number  *)
(* or NaN (json.loads accepts the NaN literal, float() the string "nan").  *)
(***************************************************************************)
Num(n) == [t |-> "num", n |-> n]
NaN == [t |-> "nan"]
Str(s) == [t |-> "str", s |-> s]
Null == [t |-> "null"]
\* what float(), a failed conversion, stands for: ValueError / TypeError
Raised == [t |-> "raised"]
\* a JSON object (a dict, kept as a record) and a JSON array (a list)
Obj(d) == [t |-> "obj", d |-> d]
Arr(a) == [t |-> "arr", a |-> a]
\* no message is being dispatched
NoMessage == [t |-> "none"]

\* bool(v): 0 and 0.0, "" and None are falsy; NaN is truthy
Truthy(v) ==
    CASE v.t = "num" -> v.n # 0
      [] v.t = "nan" -> TRUE
      [] v.t = "str" -> v.s # ""
      [] OTHER -> FALSE

\* dict.get(key): None when the key is absent
Get(d, k) == IF k \in DOMAIN d THEN d[k] ELSE Null

\* d.get(k1) or d.get(k2) or ... or default
RECURSIVE OrChain(_, _, _)
OrChain(d, keys, default) ==
    IF keys = <<>> THEN default
    ELSE IF Truthy(Get(d, Head(keys))) THEN Get(d, Head(keys))
    ELSE OrChain(d, Tail(keys), default)

\* float(v) for the values the model feeds it
ToFloat(v) ==
    CASE v.t = "num" -> v
      [] v.t = "nan" -> v
      [] OTHER -> Raised

\* a * b on floats
FMul(a, b) ==
    IF a.t = "raised" \/ b.t = "raised" THEN Raised
    ELSE IF a.t = "nan" \/ b.t = "nan" THEN NaN
    ELSE Num(a.n * b.n)

\* a < b, a <= b, a >= b on floats: every comparison with NaN is False
FLt(a, b) == a.t = "num" /\ b.t = "num" /\ a.n < b.n
FLe(a, b) == a.t = "num" /\ b.t = "num" /\ a.n <= b.n
FGe(a, b) == a.t = "num" /\ b.t = "num" /\ a.n >= b.n

\* str.upper() on the side strings of the model
Upper(s) ==
    CASE s = "buy" -> "BUY"
      [] s = "sell" -> "SELL"
      [] OTHER -> s

(***************************************************************************)
(* analyze_trade, lines 155-196: the normalizer.                           *)
(***************************************************************************)
MakerAliases ==
    <<"maker_address", "maker", "user", "trader", "address", "taker_address">>
SizeAliases == <<"size", "amount", "quantity", "volume">>
PriceAliases == <<"price", "price_per_share", "execution_price">>
SizeUsdAliases == <<"size_usd", "amount_usd", "value">>
MarketAliases ==
    <<"market", "market_id", "condition_id", "asset_id", "question_id">>

NormMaker(d) == OrChain(d, MakerAliases, Str("0x..."))
NormSize(d) == ToFloat(OrChain(d, SizeAliases, Num(0)))
NormPrice(d) == ToFloat(OrChain(d, PriceAliases, Num(0)))
NormSizeUsd(d) ==
    IF NormSize(d).t = "raised" \/ NormPrice(d).t = "raised" THEN Raised
    ELSE ToFloat(OrChain(d, SizeUsdAliases, FMul(NormSize(d), NormPrice(d))))
NormMarket(d) == OrChain(d, MarketAliases, Str("unknown_market"))

\* trade_data.get('side', 'BUY').upper(): AttributeError unless a string
NormSide(d) ==
    IF "side" \notin DOMAIN d THEN Str("BUY")
    ELSE IF d["side"].t = "str" THEN Str(Upper(d["side"].s))
    ELSE Raised

(***************************************************************************)
(* State.                                                                  *)
(***************************************************************************)
Handles == 1..MaxSubscribers
Wallets == {"0xabc", "0x..."}

VARIABLES
    now,                 \* time.time(), in hours
    redis,               \* the global redis is not None
    new_account_hours,   \* the module constant NEW_ACCOUNT_HOURS as deployed
    cache,               \* Redis: wallet -> <<first_seen_ts>>, <<>> when no key
    db_rows,             \* table suspicious_trades, in insertion order
    nInsider,            \* events classified insider so far
    active_connections,  \* manager.active_connections
    client,              \* websocket_endpoint of each client: idle, open, closed
    hub_raised,          \* the last ConnectionManager.disconnect raised ValueError
    inbox,               \* the alerts each client has received, in order
    pc,                  \* where polymarket_sentinel is suspended
    retry_delay,         \* polymarket_sentinel's retry_delay, a fraction n/d
    fails,               \* connect failures since the loop started (saturating)
    connected,           \* websockets.connect has returned at least once
    cause,               \* what led to the current asyncio.sleep(retry_delay)
    nEvents,             \* events received so far
    pending,             \* elements of the current message not yet submitted
    msg,                 \* json.loads(msg) of the message being dispatched
    cur,                 \* the analyze_trade call in progress, or the last one
    bc                   \* the manager.broadcast call in progress, or the last one

vars ==
    <<now, redis, new_account_hours, cache, db_rows, nInsider,
      active_connections, client, hub_raised, inbox, pc, retry_delay, fails,
      connected, cause, nEvents, pending, msg, cur, bc>>

hubVars == <<active_connections, client, hub_raised, inbox>>
loopVars ==
    <<pc, retry_delay, fails, connected, cause, nEvents, pending, msg>>
storeVars == <<now, redis, new_account_hours, cache, db_rows, nInsider>>

Range(s) == {s[i] : i \in 1..Len(s)}
Count(s, x) == Cardinality({i \in 1..Len(s) : s[i] = x})

\* cur: how far the call got (stage), what it computed, and how often it
\* looked the age up, appended a row and called manager.broadcast; of its age
\* lookup: the wallet, whether the cache answered (hit) or the slow path ran
\* (slow), the timestamp the age came from (first_seen), what was wrong with
\* the cache (fault) and, if anything, the age a plain miss computes (miss_age)
NoEvent ==
    [stage |-> "none", size_usd |-> Null, age |-> Null, risk |-> "none",
     lookups |-> 0, rows |-> 0, bcasts |-> 0, alert |-> Null,
     wallet |-> "", hit |-> FALSE, slow |-> FALSE, first_seen |-> <<>>,
     fault |-> "none", miss_age |-> Null]

\* bc: the list iterator (idx, 1-based) and the connection the send in flight
\* goes to (conn); the handles the payload was sent to (delivered) or whose
\* send raised (failed); the list when the call started (snapshot), the
\* handles removed from it since (removed), whether it changed at all
\* (mutated), and whether the call raised
NoBroadcast ==
    [idx |-> 0, conn |-> 0, delivered |-> <<>>, failed |-> {},
     snapshot |-> <<>>, removed |-> {}, mutated |-> FALSE, raised |-> FALSE]

Frac(n, d) == [n |-> n, d |-> d]

(***************************************************************************)
(* analyze_trade, lines 198-200 and 217-219: noise filter and heuristic.   *)
(***************************************************************************)
\* faulty variant: the noise filter missing
NoiseFilterOff(size_usd) == FALSE
\* line 199
IsNoise(size_usd) == FLt(size_usd, Num(NOISE_THRESHOLD_USD))

\* faulty variant: < for <= on the age
IsInsiderStrict(age_hours, size_usd) ==
    /\ FLt(age_hours, Num(new_account_hours))
    /\ FGe(size_usd, Num(SUSPICIOUS_THRESHOLD_USD))
\* line 218
IsInsider(age_hours, size_usd) ==
    /\ FLe(age_hours, Num(new_account_hours))
    /\ FGe(size_usd, Num(SUSPICIOUS_THRESHOLD_USD))

\* faulty variant: line 219 missing
RiskProfileNeverSet(age_hours, size_usd) == "normal"
\* lines 214 and 219
RiskProfile(age_hours, size_usd) ==
    IF IsInsider(age_hours, size_usd) THEN "insider" ELSE "normal"

(***************************************************************************)
(* get_wallet_age_hours, lines 109-147.  getOk, setOk: the Redis calls     *)
(* return; rpc: the slow lookup fails, or finds a new or an old wallet;    *)
(* k: random.randint(1, 20).  The result: the age returned (Raised when    *)
(* the call raises), the cache afterwards, whether the slow path ran.      *)
(***************************************************************************)
\* a key is there until its TTL runs out
CacheHit(wallet) ==
    redis /\ cache[wallet] # <<>> /\ now < cache[wallet][2]

SlowFirstSeen(rpc, k) ==
    IF rpc = "new" THEN now - k ELSE now - OLD_WALLET_HOURS

\* line 139: the key written, with the hour its TTL runs out
CacheEntry(first_seen) == <<first_seen, now + CACHE_TTL_HOURS>>

\* faulty variant: line 139 missing
GetWalletAgeNoWrite(wallet, getOk, rpc, k, setOk) ==
    IF redis /\ ~getOk
    THEN [age |-> Raised, cache |-> cache, slow |-> FALSE, hit |-> FALSE,
          first_seen |-> <<>>]
    ELSE IF CacheHit(wallet)
    THEN [age |-> Num(now - cache[wallet][1]), cache |-> cache, slow |-> FALSE,
          hit |-> TRUE, first_seen |-> <<cache[wallet][1]>>]
    ELSE IF rpc = "fail" \/ (redis /\ ~setOk)
    THEN [age |-> Num(RPC_FAILURE_AGE), cache |-> cache, slow |-> TRUE,
          hit |-> FALSE, first_seen |-> <<>>]
    ELSE [age |-> Num(now - SlowFirstSeen(rpc, k)),
          cache |-> cache,
          slow |-> TRUE, hit |-> FALSE, first_seen |-> <<SlowFirstSeen(rpc, k)>>]
\* lines 109-147.  hit: the age came from the cached timestamp; first_seen:
\* the timestamp the age returned was computed from
GetWalletAge(wallet, getOk, rpc, k, setOk) ==
    IF redis /\ ~getOk
    THEN [age |-> Raised, cache |-> cache, slow |-> FALSE, hit |-> FALSE,
          first_seen |-> <<>>]
    ELSE IF CacheHit(wallet)
    THEN [age |-> Num(now - cache[wallet][1]), cache |-> cache, slow |-> FALSE,
          hit |-> TRUE, first_seen |-> <<cache[wallet][1]>>]
    ELSE IF rpc = "fail" \/ (redis /\ ~setOk)
    THEN [age |-> Num(RPC_FAILURE_AGE), cache |-> cache, slow |-> TRUE,
          hit |-> FALSE, first_seen |-> <<>>]
    ELSE [age |-> Num(now - SlowFirstSeen(rpc, k)),
          cache |-> IF redis
                    THEN [cache EXCEPT ![wallet] = CacheEntry(SlowFirstSeen(rpc, k))]
                    ELSE cache,
          slow |-> TRUE, hit |-> FALSE, first_seen |-> <<SlowFirstSeen(rpc, k)>>]

\* what was wrong with the cache during a call: there is no client, the get
\* raised, the set did, or nothing
CacheFault(wallet, getOk, rpc, setOk) ==
    IF ~redis THEN "absent"
    ELSE IF ~getOk THEN "get"
    ELSE IF redis /\ ~CacheHit(wallet) /\ rpc # "fail" /\ ~setOk THEN "set"
    ELSE "none"

\* the age lines 124-141 compute on a miss
MissAge(rpc, k) ==
    IF rpc = "fail" THEN Num(RPC_FAILURE_AGE) ELSE Num(now - SlowFirstSeen(rpc, k))

(***************************************************************************)
(* ConnectionManager, lines 50-69.                                         *)
(***************************************************************************)
\* list.remove(x): the first occurrence goes
RECURSIVE RemoveFirst(_, _)
RemoveFirst(s, x) ==
    IF s = <<>> THEN <<>>
    ELSE IF Head(s) = x THEN Tail(s)
    ELSE <<Head(s)>> \o RemoveFirst(Tail(s), x)

\* connect: accept, then append
ConnectedList(conns, h) == Append(conns, h)

\* disconnect: list.remove raises ValueError when the handle is not there
DisconnectRaises(conns, h) == h \notin Range(conns)
DisconnectedList(conns, h) == RemoveFirst(conns, h)

\* faulty variant: no except clause around the send
SendErrorEscapes == TRUE
\* broadcast, lines 65-69: does the error of a failed send leave broadcast?
\* except Exception: pass
SendErrorRaised == FALSE

\* broadcast, lines 67-69: the handles dropped from the list on a failed send
PrunedOnError(conns, h) == conns

\* the for loop of broadcast: the position the list iterator reads next
NextIndex(idx) == idx + 1

\* a change of the list while a broadcast is suspended in a send
Touched(h, isRemoval) ==
    IF pc = "send"
    THEN [bc EXCEPT !.mutated = TRUE,
                    !.removed = IF isRemoval THEN @ \cup {h} ELSE @]
    ELSE bc

(***************************************************************************)
(* websocket_endpoint, lines 376-384.                                      *)
(***************************************************************************)
WsConnect(h) ==
    /\ client[h] = "idle"
    /\ client' = [client EXCEPT ![h] = "open"]
    /\ active_connections' = ConnectedList(active_connections, h)
    /\ bc' = Touched(h, FALSE)
    /\ UNCHANGED <<hub_raised, inbox, cur>>
    /\ UNCHANGED loopVars
    /\ UNCHANGED storeVars

\* receive_text raises WebSocketDisconnect
WsDisconnect(h) ==
    /\ client[h] = "open"
    /\ client' = [client EXCEPT ![h] = "closed"]
    /\ hub_raised' = DisconnectRaises(active_connections, h)
    /\ active_connections' =
           IF DisconnectRaises(active_connections, h)
           THEN active_connections
           ELSE DisconnectedList(active_connections, h)
    /\ bc' = Touched(h, TRUE)
    /\ UNCHANGED <<inbox, cur>>
    /\ UNCHANGED loopVars
    /\ UNCHANGED storeVars

(***************************************************************************)
(* analyze_trade, lines 149-235, up to its first await inside broadcast.   *)
(* ev: the element submitted; env: what the calls it awaits do (getOk,     *)
(* rpc, k, setOk: see GetWalletAge; persist: db.execute raises, or it      *)
(* inserts the row on the connection and db.commit raises, or both         *)
(* return).  A db that is None raises at db.execute like a failed execute. *)
(***************************************************************************)
Alert(ev, age) ==
    [trader |-> NormMaker(ev), market |-> NormMarket(ev),
     amount |-> NormSizeUsd(ev), type |-> NormSide(ev),
     accountAgeHours |-> age, riskProfile |-> RiskProfile(age, NormSizeUsd(ev))]

Row(ev, age) ==
    [wallet_address |-> NormMaker(ev), amount_usd |-> NormSizeUsd(ev),
     wallet_age_hours |-> age, market_slug |-> NormMarket(ev)]

\* line 232 with an empty list returns at once; otherwise the first send starts
StartBroadcast(event) ==
    IF active_connections = <<>>
    THEN /\ cur' = [event EXCEPT !.stage = "done", !.bcasts = 1]
         /\ bc' = NoBroadcast
         /\ pc' = "dispatch"
    ELSE /\ cur' = [event EXCEPT !.stage = "broadcasting", !.bcasts = 1]
         /\ bc' = [NoBroadcast EXCEPT !.idx = 1, !.conn = active_connections[1],
                                      !.snapshot = active_connections]
         /\ pc' = "send"

\* faulty variant: no except clause in analyze_trade: the error reaches the
\* except of line 358, whose continue abandons the rest of the message
SiblingsDroppedOnError(remaining) == 0
\* lines 234-235: the error is logged and analyze_trade returns, so the loop
\* that called it goes on with the elements that remain
RemainingAfterError(remaining) == remaining

\* the except clause of line 234: the event ends, logged
Failed(event) ==
    /\ cur' = [event EXCEPT !.stage = "error"]
    /\ bc' = NoBroadcast
    /\ pc' = "dispatch"

AnalyzeTrade(ev, env) ==
    /\ pc = "dispatch"
    /\ pending > 0
    /\ UNCHANGED <<now, redis, new_account_hours, retry_delay, fails, connected,
                   cause, nEvents, msg>>
    /\ UNCHANGED hubVars
    /\ LET size_usd == NormSizeUsd(ev)
           wallet == NormMaker(ev).s
           r == GetWalletAge(wallet, env.getOk, env.rpc, env.k, env.setOk)
           fault == CacheFault(wallet, env.getOk, env.rpc, env.setOk)
           seen == [NoEvent EXCEPT !.size_usd = size_usd]
           looked == [seen EXCEPT !.lookups = 1, !.age = r.age,
                                  !.wallet = wallet, !.hit = r.hit,
                                  !.slow = r.slow, !.first_seen = r.first_seen,
                                  !.fault = fault,
                                  !.miss_age = IF fault = "none" THEN Null
                                               ELSE MissAge(env.rpc, env.k)]
           built == [looked EXCEPT !.alert = Alert(ev, r.age),
                                   !.risk = RiskProfile(r.age, size_usd)]
           counted == IF IsInsider(r.age, size_usd) THEN nInsider + 1 ELSE nInsider
       IN  IF size_usd.t = "raised"
           THEN Failed(seen) /\ UNCHANGED <<cache, db_rows, nInsider>>
           ELSE IF IsNoise(size_usd)
           THEN /\ cur' = [seen EXCEPT !.stage = "dropped"]
                /\ bc' = NoBroadcast
                /\ pc' = "dispatch"
                /\ UNCHANGED <<cache, db_rows, nInsider>>
           ELSE IF r.age.t = "raised"
           THEN Failed(looked) /\ UNCHANGED <<cache, db_rows, nInsider>>
           ELSE IF NormSide(ev).t = "raised"
           THEN /\ Failed(looked)
                /\ cache' = r.cache
                /\ UNCHANGED <<db_rows, nInsider>>
           ELSE IF ~IsInsider(r.age, size_usd)
           THEN /\ StartBroadcast(built)
                /\ cache' = r.cache
                /\ UNCHANGED <<db_rows, nInsider>>
           ELSE IF env.persist = "execute_fails"
           THEN /\ Failed(built)
                /\ cache' = r.cache
                /\ nInsider' = counted
                /\ UNCHANGED db_rows
           ELSE IF env.persist = "commit_fails"
           THEN /\ Failed([built EXCEPT !.rows = 1])
                /\ cache' = r.cache
                /\ nInsider' = counted
                /\ db_rows' = Append(db_rows, Row(ev, r.age))
           ELSE /\ StartBroadcast([built EXCEPT !.rows = 1])
                /\ cache' = r.cache
                /\ nInsider' = counted
                /\ db_rows' = Append(db_rows, Row(ev, r.age))
    /\ pending' = IF cur'.stage = "error"
                   THEN RemainingAfterError(pending - 1)
                   ELSE pending - 1

(***************************************************************************)
(* ConnectionManager.broadcast resumes from await connection.send_text:    *)
(* the send returned (ok) or raised, and the loop goes on to the next      *)
(* element of the list as it is now, or ends.  What the client has seen    *)
(* (inbox) is left to the specification that uses the action.              *)
(***************************************************************************)
SendReturns(ok) ==
    /\ pc = "send"
    /\ ok => client[bc.conn] = "open"
    /\ UNCHANGED <<client, hub_raised>>
    /\ UNCHANGED <<retry_delay, fails, connected, cause, nEvents, msg, pending>>
    /\ UNCHANGED storeVars
    /\ LET conns == IF ok THEN active_connections
                    ELSE PrunedOnError(active_connections, bc.conn)
           sent == IF ok
                   THEN [bc EXCEPT !.delivered = Append(@, bc.conn)]
                   ELSE [bc EXCEPT !.failed = @ \cup {bc.conn}]
       IN  /\ active_connections' = conns
           /\ IF ~ok /\ SendErrorRaised
              THEN /\ bc' = [sent EXCEPT !.raised = TRUE]
                   /\ cur' = [cur EXCEPT !.stage = "error"]
                   /\ pc' = "dispatch"
              ELSE IF NextIndex(bc.idx) <= Len(conns)
              THEN /\ bc' = [sent EXCEPT !.idx = NextIndex(bc.idx),
                                         !.conn = conns[NextIndex(bc.idx)]]
                   /\ UNCHANGED <<cur, pc>>
              ELSE /\ bc' = sent
                   /\ cur' = [cur EXCEPT !.stage = "done"]
                   /\ pc' = "dispatch"

(***************************************************************************)
(* polymarket_sentinel, lines 262-374 (live mode, USE_MOCK_DATA = False).  *)
(***************************************************************************)
RETRY_FLOOR == 5
MAX_RETRY_DELAY == 60

FracLe(a, b) == a.n * b.d <= b.n * a.d

\* faulty variant: line 276 missing
DelayKeptOnConnect(d) == d
\* line 276
DelayOnConnect(d) == Frac(RETRY_FLOOR, 1)

\* faulty variant: a factor of 2
RetryDelayDoubled(d) ==
    IF FracLe(Frac(d.n * 2, d.d), Frac(MAX_RETRY_DELAY, 1))
    THEN Frac(d.n * 2, d.d)
    ELSE Frac(MAX_RETRY_DELAY, 1)
\* line 374: min(retry_delay * 1.5, max_retry_delay)
NextRetryDelay(d) ==
    IF FracLe(Frac(d.n * 3, d.d * 2), Frac(MAX_RETRY_DELAY, 1))
    THEN Frac(d.n * 3, d.d * 2)
    ELSE Frac(MAX_RETRY_DELAY, 1)

\* the seconds the loop sleeps for where it is suspended in asyncio.sleep
CurrentWait ==
    IF pc = "sleep_invalid" THEN Frac(INVALID_URI_WAIT, 1) ELSE retry_delay

\* lines 270-305: websockets.connect returns; the subscription is sent, or the
\* send fails and is logged; either way the receive loop starts
ConnectOk ==
    /\ pc = "connect"
    /\ pc' = "recv"
    /\ retry_delay' = DelayOnConnect(retry_delay)
    /\ connected' = TRUE
    /\ UNCHANGED <<fails, cause, nEvents, msg, pending, cur, bc>>
    /\ UNCHANGED hubVars
    /\ UNCHANGED storeVars

\* lines 362-363 and 369-373: asyncio.TimeoutError or another error of connect
ConnectFail ==
    /\ pc = "connect"
    /\ pc' = "sleep"
    /\ cause' = "connect_error"
    /\ fails' = IF fails >= MaxFailures THEN MaxFailures + 1 ELSE fails + 1
    /\ UNCHANGED <<retry_delay, connected, nEvents, msg, pending, cur, bc>>
    /\ UNCHANGED hubVars
    /\ UNCHANGED storeVars

\* lines 364-367: InvalidURI, a fixed wait
ConnectInvalid ==
    /\ pc = "connect"
    /\ pc' = "sleep_invalid"
    /\ cause' = "invalid_uri"
    /\ UNCHANGED <<retry_delay, fails, connected, nEvents, msg, pending, cur, bc>>
    /\ UNCHANGED hubVars
    /\ UNCHANGED storeVars

\* faulty variant: return for the continue of line 368
InvalidWakeReturns ==
    /\ pc = "sleep_invalid"
    /\ pc' = "returned"
    /\ cause' = "none"
    /\ UNCHANGED <<retry_delay, fails, connected, nEvents, msg, pending, cur, bc>>
    /\ UNCHANGED hubVars
    /\ UNCHANGED storeVars
\* line 368: continue
InvalidWake ==
    /\ pc = "sleep_invalid"
    /\ pc' = "connect"
    /\ cause' = "none"
    /\ UNCHANGED <<retry_delay, fails, connected, nEvents, msg, pending, cur, bc>>
    /\ UNCHANGED hubVars
    /\ UNCHANGED storeVars

\* lines 373-374: the sleep returns, the delay grows
Wake ==
    /\ pc = "sleep"
    /\ pc' = "connect"
    /\ retry_delay' = NextRetryDelay(retry_delay)
    /\ cause' = "none"
    /\ UNCHANGED <<fails, connected, nEvents, msg, pending, cur, bc>>
    /\ UNCHANGED hubVars
    /\ UNCHANGED storeVars

\* lines 309-342: a message that dispatches n elements to analyze_trade
Receive(n) ==
    /\ pc = "recv"
    /\ nEvents + n <= MaxEvents
    /\ pc' = "dispatch"
    /\ pending' = n
    /\ nEvents' = nEvents + n
    /\ UNCHANGED <<retry_delay, fails, connected, cause, msg, cur, bc>>
    /\ UNCHANGED hubVars
    /\ UNCHANGED storeVars

\* lines 343-354 and 358-360: a message that is not JSON, a 30 s timeout and
\* its ping, an error while processing: the loop continues
RecvIdle ==
    /\ pc = "recv"
    /\ UNCHANGED vars

\* lines 355-357: ConnectionClosed, break, and the sleep of line 373
Closed ==
    /\ pc = "recv"
    /\ pc' = "sleep"
    /\ cause' = "closed"
    /\ UNCHANGED <<retry_delay, fails, connected, nEvents, msg, pending, cur, bc>>
    /\ UNCHANGED hubVars
    /\ UNCHANGED storeVars

\* every element of the message was submitted: back to ws.recv()
MessageDone ==
    /\ pc = "dispatch"
    /\ pending = 0
    /\ pc' = "recv"
    /\ msg' = NoMessage
    /\ cur' = NoEvent
    /\ bc' = NoBroadcast
    /\ UNCHANGED <<retry_delay, fails, connected, cause, nEvents, pending>>
    /\ UNCHANGED hubVars
    /\ UNCHANGED storeVars

\* the wall clock
Tick ==
    /\ now < MaxClock
    /\ now' = now + 1
    /\ UNCHANGED <<redis, new_account_hours, cache, db_rows, nInsider, cur, bc>>
    /\ UNCHANGED hubVars
    /\ UNCHANGED loopVars

(***************************************************************************)
(* polymarket_sentinel, lines 317-342: which elements of a parsed message  *)
(* are submitted to analyze_trade, in order.                               *)
(***************************************************************************)
\* str.lower() on the strings of the model
Lower(s) == IF s = "Trades" THEN "trades" ELSE s

\* 'trades' in s.lower(), for the strings and keys of the model
HasTradesInside(s) == Lower(s) \in {"trades", "live_trades"}

\* 'trades' in str(data).lower(): the text of a value shows its keys and its
\* strings, at every depth
RECURSIVE MentionsTrades(_)
MentionsTrades(v) ==
    CASE v.t = "str" -> HasTradesInside(v.s)
      [] v.t = "obj" -> \E k \in DOMAIN v.d :
                            HasTradesInside(k) \/ MentionsTrades(v.d[k])
      [] v.t = "arr" -> \E i \in 1..Len(v.a) : MentionsTrades(v.a[i])
      [] OTHER -> FALSE

\* line 319
IsEventLike(d) ==
    \/ Get(d, "type") \in {Str("fill"), Str("trade"), Str("match")}
    \/ "maker_address" \in DOMAIN d
    \/ "size" \in DOMAIN d

\* line 326
NamesTrades(d) == Get(d, "channel") = Str("trades") \/ MentionsTrades(Obj(d))

\* line 328: data.get('data', data.get('payload', [data]))
NestedTrades(d) ==
    IF "data" \in DOMAIN d THEN d["data"]
    ELSE IF "payload" \in DOMAIN d THEN d["payload"]
    ELSE Arr(<<Obj(d)>>)

\* lines 317-342; the branch of line 321 can never be taken
Dispatch(data) ==
    IF data.t = "obj"
    THEN IF IsEventLike(data.d) THEN <<data>>
         ELSE IF NamesTrades(data.d)
         THEN IF NestedTrades(data.d).t = "arr"
              THEN NestedTrades(data.d).a
              ELSE <<NestedTrades(data.d)>>
         ELSE <<data>>
    ELSE IF data.t = "arr"
    THEN SelectSeq(data.a, LAMBDA item : item.t = "obj")
    ELSE <<>>

\* the elements of the current message submitted so far
Submitted ==
    IF msg = NoMessage THEN <<>>
    ELSE SubSeq(Dispatch(msg), 1, Len(Dispatch(msg)) - pending)

\* lines 309-342: ws.recv() returns a message that json.loads parses to m
ReceiveMessage(m) ==
    /\ pc = "recv"
    /\ nEvents + Len(Dispatch(m)) <= MaxEvents
    /\ pc' = "dispatch"
    /\ msg' = m
    /\ pending' = Len(Dispatch(m))
    /\ nEvents' = nEvents + Len(Dispatch(m))
    /\ UNCHANGED <<retry_delay, fails, connected, cause, cur, bc>>
    /\ UNCHANGED hubVars
    /\ UNCHANGED storeVars

\* analyze_trade called with something that is not a dict: the first
\* trade_data.get raises AttributeError, caught at line 234
AnalyzeNonDict ==
    /\ pc = "dispatch"
    /\ pending > 0
    /\ pending' = RemainingAfterError(pending - 1)
    /\ cur' = [NoEvent EXCEPT !.stage = "error", !.size_usd = Raised]
    /\ bc' = NoBroadcast
    /\ UNCHANGED <<pc, retry_delay, fails, connected, cause, nEvents, msg>>
    /\ UNCHANGED hubVars
    /\ UNCHANGED storeVars

\* the for loops of lines 330-331 and 340-342 (and the single calls of lines
\* 320, 333 and 337): the next element goes to analyze_trade
SubmitNext(env) ==
    /\ msg # NoMessage
    /\ pending > 0
    /\ LET element == Dispatch(msg)[Len(Dispatch(msg)) - pending + 1]
       IN  IF element.t = "obj"
           THEN AnalyzeTrade(element.d, env)
           ELSE AnalyzeNonDict

(***************************************************************************)
(* The inputs.                                                             *)
(***************************************************************************)
RawEvents ==
    { [value |-> Num(50)],
      [size_usd |-> Num(99)],
      [size_usd |-> Num(100)],
      [maker_address |-> Str("0xabc"), size_usd |-> Num(9999)],
      [maker_address |-> Str("0xabc"), size |-> Num(5000), price |-> Num(2),
       side |-> Str("sell")],
      [maker_address |-> Str("0xabc"), size_usd |-> NaN],
      [maker_address |-> Str("0xabc"), size_usd |-> Num(10000), side |-> Null],
      [size |-> Str("abc"), price |-> Num(3)] }

Env(getOk, rpc, k, setOk, persist) ==
    [getOk |-> getOk, rpc |-> rpc, k |-> k, setOk |-> setOk, persist |-> persist]

\* every call succeeds and the wallet is an old one
Calm == Env(TRUE, "old", MAX_NEW_WALLET_HOURS, TRUE, "ok")

Environments ==
    { Calm,
      Env(TRUE, "new", MIN_NEW_WALLET_HOURS, TRUE, "ok"),
      Env(TRUE, "new", MAX_NEW_WALLET_HOURS, TRUE, "ok"),
      Env(TRUE, "fail", MAX_NEW_WALLET_HOURS, TRUE, "ok"),
      Env(FALSE, "new", MAX_NEW_WALLET_HOURS, TRUE, "ok"),
      Env(TRUE, "new", MAX_NEW_WALLET_HOURS, FALSE, "ok"),
      Env(TRUE, "new", MAX_NEW_WALLET_HOURS, TRUE, "execute_fails"),
      Env(TRUE, "new", MAX_NEW_WALLET_HOURS, TRUE, "commit_fails") }

\* a feed of plain trades: one above the noise floor, one below
PlainEvents == { [size_usd |-> Num(100)], [value |-> Num(50)] }

\* Redis may hold a key an earlier run left: a wallet first seen 48 hours ago
KeyLeft(expires) ==
    [w \in Wallets |->
        IF w = "0xabc" THEN <<0 - NEW_ACCOUNT_HOURS, expires>> ELSE <<>>]

InitialCaches == { [w \in Wallets |-> <<>>], KeyLeft(CACHE_TTL_HOURS) }

\* two trades as the feed nests them in a message
TradeA == Obj([maker_address |-> Str("0xabc"), size_usd |-> Num(9999)])
TradeB == Obj([maker |-> Str("0xabc"), size_usd |-> Num(100)])

\* parsed messages of every shape the dispatch tells apart
Messages ==
    { TradeA,
      Obj([type |-> Str("fill"), size_usd |-> Num(100)]),
      Obj([foo |-> Num(1)]),
      Obj([channel |-> Str("trades")]),
      Obj([data |-> Arr(<<TradeA, TradeB>>)]),
      Obj([channel |-> Str("trades"), data |-> Arr(<<TradeA, TradeB>>)]),
      Obj([channel |-> Str("trades"), payload |-> Arr(<<TradeB>>)]),
      Obj([event |-> Str("live_trades"), payload |-> Arr(<<TradeA>>)]),
      Obj([channel |-> Str("Trades"), data |-> Arr(<<TradeB, Num(7)>>)]),
      Obj([channel |-> Str("trades"), data |-> TradeB]),
      Obj([type |-> Str("trade"), channel |-> Str("trades"),
           data |-> Arr(<<TradeA>>)]),
      Obj([channel |-> Str("trades"), size |-> Num(2),
           payload |-> Arr(<<TradeA, TradeB>>)]),
      Arr(<<TradeA, TradeB>>),
      Arr(<<TradeB, Num(7)>>),
      Arr(<<>>),
      Num(42),
      Str("pong"),
      Null }

\* the state after startup, with Redis holding one of the given key sets and
\* NEW_ACCOUNT_HOURS set to one of the given values
Boot(caches, thresholds) ==
    /\ now = 0
    /\ redis \in BOOLEAN
    /\ new_account_hours \in thresholds
    /\ cache \in caches
    /\ redis = FALSE => cache = [w \in Wallets |-> <<>>]
    /\ db_rows = <<>>
    /\ nInsider = 0
    /\ active_connections = <<>>
    /\ client = [h \in Handles |-> "idle"]
    /\ hub_raised = FALSE
    /\ inbox = [h \in Handles |-> <<>>]
    /\ pc = "connect"
    /\ retry_delay = Frac(RETRY_FLOOR, 1)
    /\ fails = 0
    /\ connected = FALSE
    /\ cause = "none"
    /\ nEvents = 0
    /\ pending = 0
    /\ msg = NoMessage
    /\ cur = NoEvent
    /\ bc = NoBroadcast

Init == Boot(InitialCaches, {NEW_ACCOUNT_HOURS})

(***************************************************************************)
(* The program: the sentinel on a feed of plain trades that accepts every  *)
(* connection and may close it, and the clients that come and go.          *)
(***************************************************************************)
Next ==
    \/ \E h \in Handles : WsConnect(h)
    \/ \E h \in Handles : WsDisconnect(h)
    \/ ConnectOk
    \/ Wake
    \/ \E n \in 1..MaxBatch : Receive(n)
    \/ RecvIdle
    \/ Closed
    \/ MessageDone
    \/ \E ev \in PlainEvents : AnalyzeTrade(ev, Calm)
    \/ \E ok \in BOOLEAN : SendReturns(ok) /\ UNCHANGED inbox

Spec == Init /\ [][Next]_vars

(***************************************************************************)
(* The pipeline: every kind of event under every outcome of the calls it   *)
(* awaits, on a connection that stays up, with one client.                 *)
(***************************************************************************)
NextPipeline ==
    \/ WsConnect(1)
    \/ WsDisconnect(1)
    \/ ConnectOk
    \/ \E n \in 1..MaxBatch : Receive(n)
    \/ RecvIdle
    \/ MessageDone
    \/ \E ev \in RawEvents, env \in Environments : AnalyzeTrade(ev, env)
    \/ \E ok \in BOOLEAN : SendReturns(ok) /\ UNCHANGED inbox
    \/ Tick

SpecPipeline == Init /\ [][NextPipeline]_vars

(***************************************************************************)
(* The reconnect loop on a feed that stays silent.                         *)
(***************************************************************************)
NextBackoff ==
    \/ ConnectOk
    \/ ConnectFail
    \/ ConnectInvalid
    \/ InvalidWake
    \/ Wake
    \/ RecvIdle
    \/ Closed

SpecBackoff == Init /\ [][NextBackoff]_vars

\* the same loop, with every asyncio.sleep returning in the end
SpecBackoffFair == SpecBackoff /\ WF_vars(Wake) /\ WF_vars(InvalidWake)

(***************************************************************************)
(* ConnectionManager driven directly: connect and disconnect called with   *)
(* any handle, registered or not.                                          *)
(***************************************************************************)
ApiConnect(h) ==
    /\ Len(active_connections) < MaxConns
    /\ active_connections' = ConnectedList(active_connections, h)
    /\ hub_raised' = FALSE
    /\ UNCHANGED <<client, inbox, cur, bc>>
    /\ UNCHANGED loopVars
    /\ UNCHANGED storeVars

ApiDisconnect(h) ==
    /\ hub_raised' = DisconnectRaises(active_connections, h)
    /\ active_connections' =
           IF DisconnectRaises(active_connections, h)
           THEN active_connections
           ELSE DisconnectedList(active_connections, h)
    /\ UNCHANGED <<client, inbox, cur, bc>>
    /\ UNCHANGED loopVars
    /\ UNCHANGED storeVars

NextManager ==
    \/ \E h \in Handles : ApiConnect(h)
    \/ \E h \in Handles : ApiDisconnect(h)

SpecManager == Init /\ [][NextManager]_vars

(***************************************************************************)
(* The dispatch: messages of every shape on a connection that stays up,    *)
(* with no client.                                                         *)
(***************************************************************************)
NextDispatch ==
    \/ ConnectOk
    \/ \E m \in Messages : ReceiveMessage(m)
    \/ SubmitNext(Calm)
    \/ MessageDone

SpecDispatch == Init /\ [][NextDispatch]_vars

(***************************************************************************)
(* The age resolver: trades of two wallets under every outcome of the      *)
(* calls awaited, with no client, a clock that advances and a key in Redis *)
(* whose TTL may run out.                                                  *)
(***************************************************************************)
ResolverEvents ==
    { [maker_address |-> Str("0xabc"), size_usd |-> Num(10000)],
      [size_usd |-> Num(100)] }

InitResolver ==
    Boot(InitialCaches \cup {KeyLeft(MaxClock)}, {NEW_ACCOUNT_HOURS})

NextResolver ==
    \/ ConnectOk
    \/ \E n \in 1..MaxBatch : Receive(n)
    \/ MessageDone
    \/ \E ev \in ResolverEvents, env \in Environments : AnalyzeTrade(ev, env)
    \/ Tick

SpecResolver == InitResolver /\ [][NextResolver]_vars

(***************************************************************************)
(* The classifier under other settings of NEW_ACCOUNT_HOURS: two days, a   *)
(* month, and as many hours as the age a failed lookup returns.            *)
(***************************************************************************)
ConfiguredThresholds == {NEW_ACCOUNT_HOURS, OLD_WALLET_HOURS, RPC_FAILURE_AGE}

InitThreshold == Boot(InitialCaches, ConfiguredThresholds)

NextThreshold ==
    \/ ConnectOk
    \/ \E n \in 1..MaxBatch : Receive(n)
    \/ MessageDone
    \/ \E ev \in ResolverEvents, env \in Environments : AnalyzeTrade(ev, env)

SpecThreshold == InitThreshold /\ [][NextThreshold]_vars

(***************************************************************************)
(* The normalizer: single trades that carry several aliases of one field,  *)
(* on a connection that stays up, with no client.                          *)
(***************************************************************************)
AliasTrades ==
    { Obj([maker_address |-> Str("0xabc"), size_usd |-> Num(500),
           amount_usd |-> Num(15000)]),
      Obj([maker_address |-> Str("0xabc"), size_usd |-> Num(0),
           amount_usd |-> Num(15000)]),
      Obj([amount_usd |-> Num(300), value |-> Num(50)]),
      Obj([size_usd |-> Num(200), size |-> Num(5), price |-> Num(3)]),
      Obj([size |-> Num(0), amount |-> Num(300), price |-> Num(2)]),
      Obj([size |-> Num(50), price |-> Num(0), price_per_share |-> Num(4)]),
      Obj([size |-> Num(40), quantity |-> Num(7), price |-> Num(5),
           execution_price |-> Num(9)]),
      Obj([maker_address |-> Str(""), maker |-> Str("0xabc"),
           size_usd |-> Num(200)]),
      Obj([maker |-> Str("0xabc"), taker_address |-> Str("0xdef"),
           size_usd |-> Num(200)]),
      Obj([market |-> Str(""), market_id |-> Str("m1"), size_usd |-> Num(200)]),
      Obj([market |-> Str("m0"), condition_id |-> Str("c1"),
           size_usd |-> Num(200)]) }

NextNormalizer ==
    \/ ConnectOk
    \/ \E m \in AliasTrades : ReceiveMessage(m)
    \/ SubmitNext(Calm)
    \/ MessageDone

SpecNormalizer == Init /\ [][NextNormalizer]_vars

(***************************************************************************)
(* A stalled subscriber: client 1 never reads, so a send_text to it never  *)
(* returns.  Every other await of the sentinel returns in the end; the     *)
(* feed and the clients are free to act or not.                            *)
(***************************************************************************)
Stalled == {1}

\* await connection.send_text(payload) of line 67, for a client that reads
SendReturnsUnlessStalled(ok) ==
    /\ bc.conn \notin Stalled
    /\ SendReturns(ok)
    /\ UNCHANGED inbox

NextStall ==
    \/ \E h \in Handles : WsConnect(h)
    \/ \E h \in Handles : WsDisconnect(h)
    \/ ConnectOk
    \/ \E n \in 1..MaxBatch : Receive(n)
    \/ MessageDone
    \/ \E ev \in PlainEvents : AnalyzeTrade(ev, Calm)
    \/ \E ok \in BOOLEAN : SendReturnsUnlessStalled(ok)

SpecStall ==
    /\ Init
    /\ [][NextStall]_vars
    /\ WF_vars(ConnectOk)
    /\ WF_vars(MessageDone)
    /\ WF_vars(\E ev \in PlainEvents : AnalyzeTrade(ev, Calm))
    /\ WF_vars(\E ok \in BOOLEAN : SendReturnsUnlessStalled(ok))

(***************************************************************************)
(* Ordering: a feed whose k-th trade carries k in its amount, so that an   *)
(* alert or a row tells which event it is from, and clients that keep what *)
(* they receive; client 1 may leave, the others stay.                      *)
(***************************************************************************)
\* faulty variant: the for loops of the dispatch run from the back
UpstreamIndexFromBack(received, remaining) == remaining
\* lines 330 and 340: the for loops take the elements of a message front to
\* back, so of `received` elements so far with `remaining` still to submit
\* the next one is
UpstreamIndex(received, remaining) == received - remaining + 1

OrderedTrade(k) ==
    [maker_address |-> Str("0xabc"), size_usd |-> Num(SUSPICIOUS_THRESHOLD_USD + k)]

\* the wallet is a new one, every call succeeds
NewWallet == Env(TRUE, "new", MAX_NEW_WALLET_HOURS, TRUE, "ok")

\* websocket.send_text returned: the client has the payload
Received(ok) ==
    IF ok THEN [inbox EXCEPT ![bc.conn] = Append(@, cur.alert)] ELSE inbox

NextOrder ==
    \/ \E h \in Handles : WsConnect(h)
    \/ WsDisconnect(1)
    \/ ConnectOk
    \/ \E n \in 1..MaxBatch : Receive(n)
    \/ MessageDone
    \/ \E env \in {Calm, NewWallet} :
           AnalyzeTrade(OrderedTrade(UpstreamIndex(nEvents, pending)), env)
    \/ \E ok \in BOOLEAN : SendReturns(ok) /\ inbox' = Received(ok)

SpecOrder == Init /\ [][NextOrder]_vars

(***************************************************************************)
(* Properties.                                                             *)
(***************************************************************************)
Ended == cur.stage \in {"done", "error"}
BroadcastEnded == Ended /\ cur.bcasts = 1
Delivered(h) == Count(bc.delivered, h)
IsNum(v) == v.t = "num"

\* C1 (SpecPipeline): every event classified insider ends with exactly one row
\* appended and exactly one broadcast performed, also when the persistence
\* write fails.
C1_InsiderPersistedAndBroadcast ==
    (Ended /\ cur.risk = "insider") => (cur.rows = 1 /\ cur.bcasts = 1)

C3_InsiderIffNewAndLarge ==
    cur.alert # Null =>
        /\ cur.alert.riskProfile \in {"insider", "normal"}
        /\ cur.alert.riskProfile = "insider" <=>
               /\ IsNum(cur.alert.accountAgeHours)
               /\ cur.alert.accountAgeHours.n <= NEW_ACCOUNT_HOURS
               /\ IsNum(cur.alert.amount)
               /\ cur.alert.amount.n >= SUSPICIOUS_THRESHOLD_USD

C3_Witness ==
    /\ cur.alert # Null
    /\ cur.alert.accountAgeHours = Num(NEW_ACCOUNT_HOURS)
    /\ cur.alert.amount = Num(SUSPICIOUS_THRESHOLD_USD)
    /\ cur.alert.riskProfile = "insider"

\* C4 (SpecPipeline): an event classified normal is broadcast and appends no
\* row; the table never holds more rows than events were classified insider.
C4_NormalBroadcastNotPersisted ==
    /\ cur.risk = "normal" => (cur.bcasts = 1 /\ cur.rows = 0)
    /\ Len(db_rows) <= nInsider

C4_Witness ==
    /\ cur.stage = "done"
    /\ cur.risk = "normal"
    /\ cur.alert.accountAgeHours = Num(NEW_ACCOUNT_HOURS + 1)
    /\ cur.alert.amount = Num(SUSPICIOUS_THRESHOLD_USD)
    /\ bc.delivered = <<1>>
    /\ db_rows = <<>>

\* C5 (Spec): a broadcast over a list that no client joins or leaves meanwhile
\* raises no error and delivers exactly once to every subscriber whose send
\* did not fail, wherever the failing ones sit in the list.
C5_BroadcastSurvivesFailedSend ==
    (BroadcastEnded /\ ~bc.mutated) =>
        /\ ~bc.raised
        /\ cur.stage = "done"
        /\ \A h \in Range(bc.snapshot) \ bc.failed : Delivered(h) = 1

C5_Witness ==
    /\ BroadcastEnded
    /\ ~bc.mutated
    /\ Len(bc.snapshot) = MaxSubscribers
    /\ bc.failed = {bc.snapshot[1]}
    /\ Len(bc.delivered) = MaxSubscribers - 1

\* C6 (Spec): after a broadcast in which the send to a subscriber failed, that
\* subscriber is no longer in the active list.
C6_FailedSubscriberPruned ==
    (pc = "dispatch" /\ cur.stage = "done") =>
        \A h \in bc.failed : h \notin Range(active_connections)

\* C7 (SpecManager): connect and disconnect are idempotent: no handle is in
\* the active list twice, and disconnect raises no error.
C7_RegisterUnregisterIdempotent ==
    /\ \A h \in Handles : Count(active_connections, h) <= 1
    /\ ~hub_raised

\* C8 (Spec): a broadcast during which clients leave raises no error and
\* delivers exactly once to every subscriber that was registered when it
\* started, stayed registered and whose send did not fail.
C8_BroadcastSafeUnderDisconnect ==
    BroadcastEnded =>
        /\ ~bc.raised
        /\ \A h \in (Range(bc.snapshot) \ bc.removed) \ bc.failed :
               Delivered(h) = 1

(***************************************************************************)
(* The backoff schedule, min(5 * 1.5^k, 60), compared with a fraction.     *)
(***************************************************************************)
RECURSIVE Pow(_, _)
Pow(b, e) == IF e = 0 THEN 1 ELSE b * Pow(b, e - 1)

IsSchedule(w, k) ==
    IF RETRY_FLOOR * Pow(3, k) <= MAX_RETRY_DELAY * Pow(2, k)
    THEN w.n * Pow(2, k) = RETRY_FLOOR * Pow(3, k) * w.d
    ELSE w.n = MAX_RETRY_DELAY * w.d

CountedFailures ==
    /\ pc = "sleep"
    /\ cause = "connect_error"
    /\ ~connected
    /\ fails \in 1..MaxFailures

\* C9 as stated (SpecBackoff): after K connect failures in a row from the start
\* of the loop, the wait before attempt K+1 is min(5 * 1.5^K, 60) seconds.
C9_WaitAfterKFailures == CountedFailures => IsSchedule(CurrentWait, fails)

\* C9 amended (SpecBackoff): after K connect failures in a row from the start
\* of the loop, the wait before attempt K+1 is min(5 * 1.5^(K-1), 60) seconds.
C9_WaitAfterKFailuresShifted ==
    CountedFailures => IsSchedule(CurrentWait, fails - 1)

C9_Witness ==
    /\ CountedFailures
    /\ fails = 8
    /\ CurrentWait = Frac(MAX_RETRY_DELAY, 1)

\* C10 (SpecBackoff): once a connection attempt has succeeded retry_delay is
\* back at 5 seconds, whatever it had grown to, and the first wait after that
\* connection is lost is 5 seconds.
C10_WaitAfterSuccessIsFloor ==
    /\ pc = "recv" => retry_delay = Frac(RETRY_FLOOR, 1)
    /\ (pc = "sleep" /\ cause = "closed") => CurrentWait = Frac(RETRY_FLOOR, 1)

C10_Witness ==
    /\ pc = "sleep"
    /\ cause = "closed"
    /\ fails >= 3
    /\ CurrentWait = Frac(RETRY_FLOOR, 1)
\* the step is a call of analyze_trade that looked up the age of wallet w
LooksUp(w) == pending' = pending - 1 /\ cur'.lookups = 1 /\ cur'.wallet = w

\* C11 (SpecResolver): a lookup that finds the key answers from it without
\* running the slow path; a lookup that misses, runs the slow path and returns
\* its age leaves the key holding the timestamp that age was computed from,
\* so that the call made next for the same wallet is a hit on that timestamp
\* even if its own slow path would fail; no step changes a key that is there.
C11_CacheHitAndFill ==
    [][\A w \in Wallets :
        /\ (LooksUp(w) /\ CacheHit(w) /\ cur'.fault # "get")
            => /\ cur'.hit /\ ~cur'.slow
               /\ cur'.first_seen = <<cache[w][1]>>
               /\ cur'.age = Num(now - cache[w][1])
        /\ (LooksUp(w) /\ redis /\ ~CacheHit(w) /\ cur'.slow
                /\ cur'.age # Num(RPC_FAILURE_AGE))
            => /\ cur'.age = Num(now - cur'.first_seen[1])
               /\ cache'[w] # <<>>
               /\ cache'[w][1] = cur'.first_seen[1]
               /\ GetWalletAge(w, TRUE, "fail", MIN_NEW_WALLET_HOURS, FALSE)'.hit
               /\ GetWalletAge(w, TRUE, "fail", MIN_NEW_WALLET_HOURS, FALSE)'.age
                      = Num(now' - cur'.first_seen[1])
        /\ CacheHit(w) => cache'[w] = cache[w]
      ]_vars

\* a hit on a key that only a slow lookup of this run can have written
C11_Witness ==
    /\ cur.lookups = 1
    /\ cur.wallet = "0x..."
    /\ cur.hit
    /\ ~cur.slow
    /\ cur.first_seen = <<0 - MAX_NEW_WALLET_HOURS>>
    /\ cur.age = Num(now + MAX_NEW_WALLET_HOURS)

\* the slow path of the lookup failed and the sentinel age came back
LookupFailed ==
    cur.lookups = 1 /\ cur.slow /\ cur.age = Num(RPC_FAILURE_AGE)

\* C12 (SpecThreshold): whatever NEW_ACCOUNT_HOURS is set to, an event whose
\* slow lookup failed is not classified insider and no row is appended for it.
C12_FailedLookupNeverInsider ==
    LookupFailed => (cur.risk # "insider" /\ cur.rows = 0)

\* the rest of C12 (SpecThreshold): a lookup that fails leaves the cache as it
\* was, and is not insider under the threshold as shipped.
C12_FailedLookupLeavesCache ==
    [][(pending' = pending - 1 /\ LookupFailed')
          => (cache' = cache
              /\ (new_account_hours = NEW_ACCOUNT_HOURS
                     => cur'.risk # "insider"))]_vars

\* C13 (SpecResolver): when the cache client is absent or a Redis call raises
\* during the age lookup of an event above the noise floor, the slow path
\* runs, the age is the one a plain miss computes, and the alert is built and
\* classified on that age.
C13_CacheFaultIsMiss ==
    (cur.lookups = 1 /\ cur.fault # "none")
        => /\ cur.slow
           /\ cur.age = cur.miss_age
           /\ cur.alert # Null
           /\ cur.risk = RiskProfile(cur.miss_age, cur.size_usd)

\* the part of C13 that holds (SpecResolver): with no cache client every
\* lookup is a plain miss.
C13_AbsentCacheIsMiss ==
    (cur.lookups = 1 /\ cur.fault = "absent")
        => /\ cur.slow
           /\ cur.age = cur.miss_age
           /\ cur.alert # Null
           /\ cur.risk = RiskProfile(cur.miss_age, cur.size_usd)

\* the value of the first alias that the raw event carries, whatever it is
RECURSIVE FirstPresent(_, _, _)
FirstPresent(d, keys, default) ==
    IF keys = <<>> THEN default
    ELSE IF Head(keys) \in DOMAIN d THEN d[Head(keys)]
    ELSE FirstPresent(d, Tail(keys), default)

FirstPresentSizeUsd(d) ==
    ToFloat(FirstPresent(d, SizeUsdAliases,
                         FMul(ToFloat(FirstPresent(d, SizeAliases, Num(0))),
                              ToFloat(FirstPresent(d, PriceAliases, Num(0))))))

\* C14 (SpecNormalizer): the sizeUsd computed for a raw event is the value of
\* the first sizeUsd alias present, or size * price of the first size and
\* price aliases present when there is none, and the trader and market of the
\* alert built are the values of the first alias present, also when that
\* value is 0 or an empty string.
C14_FirstPresentAliasWins ==
    (pc = "dispatch" /\ msg.t = "obj" /\ cur.stage # "none") =>
        /\ cur.size_usd = FirstPresentSizeUsd(msg.d)
        /\ cur.alert # Null =>
              /\ cur.alert.trader = FirstPresent(msg.d, MakerAliases, Str("0x..."))
              /\ cur.alert.market =
                     FirstPresent(msg.d, MarketAliases, Str("unknown_market"))

\* the part of C14 that holds (SpecNormalizer): the first alias whose value is
\* truthy wins.
C14_FirstTruthyAliasWins ==
    (pc = "dispatch" /\ msg.t = "obj" /\ cur.stage # "none") =>
        /\ cur.size_usd = NormSizeUsd(msg.d)
        /\ cur.alert # Null =>
              /\ cur.alert.trader = NormMaker(msg.d)
              /\ cur.alert.market = NormMarket(msg.d)

\* C15 (SpecPipeline): a call of analyze_trade that ends in an error leaves the
\* loop dispatching the same message on the same connection, with every
\* element that was still to be submitted still to be submitted.
C15_ErrorLeavesSiblings ==
    [][(pc = "dispatch" /\ pending' < pending /\ cur'.stage = "error")
          => /\ pc' = "dispatch"
             /\ pending' = pending - 1
             /\ nEvents' = nEvents
             /\ connected'
             /\ cause' = "none"]_vars

\* an event ended in an error and an element of its message is still to be
\* submitted
C15_Witness ==
    /\ pc = "dispatch"
    /\ cur.stage = "error"
    /\ pending = MaxBatch - 1
    /\ pending > 0

\* C16 (SpecBackoffFair): whenever the loop is waiting after a connect error,
\* a connect timeout, an invalid endpoint or a closed connection, it later
\* stands at websockets.connect again, however many errors came before.
C16_EventuallyReconnects ==
    (pc \in {"sleep", "sleep_invalid"}) ~> (pc = "connect")

\* a new attempt after more consecutive connect failures than are counted
C16_Witness ==
    /\ pc = "connect"
    /\ ~connected
    /\ fails = MaxFailures + 1
    /\ cause = "none"

\* C17 (SpecStall): a broadcast that started with a client that reads in the
\* list gets the alert to that client (or finds it failed or gone) even if
\* the send to another client never returns, and the event in progress ends.
C17_StalledSendDoesNotBlock ==
    \A h \in Handles \ Stalled :
        (pc = "send" /\ h \in Range(bc.snapshot))
            ~> (pc = "dispatch"
                /\ (Delivered(h) > 0 \/ h \in bc.failed \/ h \in bc.removed))

\* the part of C17 that holds (SpecStall): a broadcast never stays suspended
\* in a send to a client that reads.
C17_ReadingClientDoesNotBlock ==
    (pc = "send" /\ bc.conn \notin Stalled) ~> (pc # "send" \/ bc.conn \in Stalled)

\* the upstream number of the event an alert or a row was made from
EventOf(amount) == amount.n - SUSPICIOUS_THRESHOLD_USD

\* C18 (SpecOrder): what a client has received is in upstream order, each
\* alert from a later event than the one before it, and so are the rows of
\* the table.
C18_AlertsInUpstreamOrder ==
    /\ \A h \in Handles : \A i, j \in 1..Len(inbox[h]) :
           i < j => EventOf(inbox[h][i].amount) < EventOf(inbox[h][j].amount)
    /\ \A i, j \in 1..Len(db_rows) :
           i < j => EventOf(db_rows[i].amount_usd) < EventOf(db_rows[j].amount_usd)

\* a client has received the alerts of two events and both have their row
C18_Witness ==
    /\ \E h \in Handles : Len(inbox[h]) >= 2
    /\ Len(db_rows) >= 2

\* an object that carries a list under "data" or "payload", and that list
IsContainer(m) ==
    /\ m.t = "obj"
    /\ \/ "data" \in DOMAIN m.d /\ m.d["data"].t = "arr"
       \/ "payload" \in DOMAIN m.d /\ m.d["payload"].t = "arr"
NestedList(m) ==
    IF "data" \in DOMAIN m.d /\ m.d["data"].t = "arr"
    THEN m.d["data"].a
    ELSE m.d["payload"].a
Dispatched == pc = "dispatch" /\ pending = 0 /\ msg # NoMessage

\* C19 (SpecDispatch): once a message that is an object carrying a nested list
\* under "data" or "payload" has been dispatched, the elements submitted to
\* analyze_trade are exactly the elements of that list, each once and in
\* order, and not the container, whatever other fields the container has.
C19_ContainerElementsSubmitted ==
    (Dispatched /\ IsContainer(msg)) => Submitted = NestedList(msg)

\* C20 (SpecDispatch): once a parsed message has been dispatched, every
\* element of an array was submitted, and a payload that is neither an array
\* nor an event-like object nor a container with a "data" or "payload" field
\* was submitted once as a single event.
C20_NoParsedPayloadDropped ==
    Dispatched =>
        /\ msg.t = "arr" => Submitted = msg.a
        /\ msg.t \notin {"arr", "obj"} => Submitted = <<msg>>
        /\ (msg.t = "obj" /\ ~IsEventLike(msg.d)
                /\ DOMAIN msg.d \cap {"data", "payload"} = {})
            => Submitted = <<msg>>

====
